---- MODULE Spec2Model ----
(***************************************************************************)
(* RyokanDB: the scraping run (generate_db_ryokans.py, main) and the       *)
(* geocoding run (ryokan_gps.py, fetch_gps_data) over the shared catalog   *)
(* file ryokans_db.csv.                                                    *)
(*                                                                         *)
(* Time is counted in tenths of a second.  A CSV cell that pandas reads    *)
(* back as NaN is the string "NaN" (names, coordinates) or the empty token *)
(* sequence (addresses).  Text is a sequence of tokens.                    *)
(***************************************************************************)
EXTENDS Integers, Sequences, FiniteSets, TLC

VARIABLES
    prog,           \* which script runs: "main" or "gps"
    pc,             \* position of the running script
    file,           \* ryokans_db.csv on disk
    df,             \* fetch_gps_data: the DataFrame
    todo,           \* fetch_gps_data: rows_to_process still to iterate (index labels)
    location,       \* the resolver's result so far for the current record
    all_ryokans,    \* main: the accumulated records
    page_num,       \* main: the index page being processed
    urls_to_scrape, \* main: links of the current page still to scrape
    details,        \* main: the record under construction in get_ryokan_details
    budget,         \* listing links the site can still serve (input bound)
    since,          \* per provider: time since its limiter last granted a slot
    saveKind,       \* which save is being written: "progress" or "final"
    \* history variables (read by the properties only)
    loaded,         \* the DataFrame as loaded at the start of this geocoding run
    tried,          \* provider calls issued for the current record
    attempted,      \* index labels for which a provider call was issued this run
    gap,            \* per provider: spacing of its latest call from the one before
    waited,         \* how long the latest provider call slept in its limiter
    unsaved,        \* units processed since the last save was started
    lastGood,       \* file content after the last completed save (or at start)
    visited,        \* main: index pages whose processing has finished
    saves,          \* main: the contents of the saves this run has completed
    \* get_ryokan_details: the field extraction of one listing document
    soup,           \* the parsed listing document
    price_min,      \* lines 75, 87, 90
    price_max,      \* lines 76, 88, 91
    rental_open,    \* lines 111, 128
    rental_indoor,  \* lines 112, 130
    rental_both,    \* lines 113, 132
    dls,            \* definition lists of the rental block still to classify
    classified      \* history: label, count and branch of the latest definition list

vars == <<prog, pc, file, df, todo, location, all_ryokans, page_num,
          urls_to_scrape, details, budget, since, saveKind, loaded, tried,
          attempted, gap, waited, unsaved, lastGood, visited, soup, price_min,
          price_max, rental_open, rental_indoor, rental_both, dls, classified,
          saves>>

gpsVars == <<df, todo, loaded, attempted>>
mainVars == <<all_ryokans, page_num, urls_to_scrape, details, budget, visited>>
extractVars == <<soup, price_min, price_max, rental_open, rental_indoor, rental_both,
                 dls, classified>>
runVars == <<prog, file, location, since, saveKind, tried, gap, waited, unsaved,
             lastGood, saves, gpsVars, mainVars>>

----------------------------------------------------------------------------
(* Bounds of the model *)

\* rows of the catalog a geocoding run starts from
MaxRows == 3
\* index pages walked by main (the source sets 54)
TOTAL_PAGES == 6
\* listing links served by the whole site during one scraping run
MaxListings == 2

(* Program constants *)

\* ryokan_gps.py:99  index % 10
SAVE_EVERY_ROWS == 10
\* generate_db_ryokans.py:274  page_num % 5
SAVE_EVERY_PAGES == 5
\* ryokan_gps.py:47  min_delay_seconds=1.1
PRIMARY_MIN_DELAY == 11
\* spec 4.3: the permissive provider, at least 0.5 s between calls
SECONDARY_MIN_DELAY == 5
\* generate_db_ryokans.py:266  random.uniform(0.5, 1.0)
SLEEP_MIN == 5
SLEEP_MAX == 10


Min(a, b) == IF a < b THEN a ELSE b
Max(a, b) == IF a > b THEN a ELSE b

----------------------------------------------------------------------------
(* Values *)

NaN == "NaN"

\* the result of a provider call that found nothing (Python None)
None == [ok |-> FALSE, latitude |-> NaN, longitude |-> NaN]
\* the places a provider can answer with
Locations == {[ok |-> TRUE, latitude |-> "35.2", longitude |-> "139.0"]}

\* what one provider call can do: return a place, return None, or raise
Outcomes == [kind : {"found"}, loc : Locations]
              \cup {[kind |-> "none", loc |-> None], [kind |-> "raise", loc |-> None]}

\* a URL is the sequence of its path segments; an empty url cell is <<>>
Gora == <<"ryokan", "gora">>
Tawaraya == <<"ryokan", "tawaraya">>

Row(n, a, la, lo, u) ==
    [name |-> n, location |-> a, lat |-> la, lon |-> lo, url |-> u]

\* rows a catalog written by an earlier run can hold: coordinates both present
\* or both absent, an address with or without the "Show map" artefact, an empty
\* name or address cell (read back as NaN)
SampleRows ==
    { Row("Gora Kadan", <<"Hakone", "Show map">>, NaN, NaN, Gora),
      Row(NaN, <<>>, NaN, NaN, Tawaraya),
      Row("Tawaraya", <<"Show map">>, NaN, NaN, Tawaraya),
      Row("Gora Kadan", <<"Hakone">>, "34.9", "135.7", Gora) }

RECURSIVE SeqsUpTo(_, _)
SeqsUpTo(S, n) ==
    IF n = 0 THEN {<<>>}
    ELSE LET shorter == SeqsUpTo(S, n - 1)
         IN  shorter \cup {Append(s, x) : s \in {t \in shorter : Len(t) = n - 1}, x \in S}

Catalogs == SeqsUpTo(SampleRows, MaxRows)

\* the file on disk: absent, or some bytes: a header line (or not yet) and rows
NoFile == [exists |-> FALSE, header |-> FALSE, rows |-> <<>>]
CsvFile(rows) == [exists |-> TRUE, header |-> TRUE, rows |-> rows]
EmptyFile == [exists |-> TRUE, header |-> FALSE, rows |-> <<>>]

----------------------------------------------------------------------------
(* Helpers shared by both scripts *)

\* Python truthiness of a name cell: only the empty string is falsy; the float
\* NaN that read_csv gives for an empty cell is truthy
Truthy(name) == name # ""

\* ryokan_gps.py clean_address: "" for a non-string (NaN) cell, else the text
\* with every "Show map" removed and stripped
clean_address(address) ==
    IF address = <<>> THEN <<>>
    ELSE SelectSeq(address, LAMBDA t : t # "Show map")

Providers == {"primary", "secondary"}

\* mutant: the limiter is built with the 1 second its comment speaks of
geocode_min_delay_short == PRIMARY_MIN_DELAY - 1

\* the limiter of the geocode wrapper built at ryokan_gps.py:47
geocode_min_delay == PRIMARY_MIN_DELAY

MinDelay(p) == IF p = "primary" THEN geocode_min_delay ELSE SECONDARY_MIN_DELAY

\* a limiter's elapsed time is tracked up to the delay it was built for; from
\* there on it does not wait
Cap(p) == IF p = "primary" THEN PRIMARY_MIN_DELAY ELSE SECONDARY_MIN_DELAY

\* RateLimiter: sleep until min_delay has passed since the limiter's last slot
Wait(p) == Max(0, MinDelay(p) - since[p])

\* how long a provider call can take (at once, or longer than the shorter delay)
Latencies == {0, 6}

\* the provider clocks after a call to p that took l: p's limiter restarts at the
\* call, the other limiter only sees time pass
SinceAfterCall(p, l) ==
    [q \in Providers |->
        IF q = p THEN Min(Cap(q), l) ELSE Min(Cap(q), since[q] + Wait(p) + l)]

GapAfterCall(p) == [gap EXCEPT ![p] = Min(Cap(p), since[p] + Wait(p))]

\* the provider clocks after d tenths of a second passed without any call
SinceAfter(d) == [q \in Providers |-> Min(Cap(q), since[q] + d)]

\* one entry of the history of calls for the current record
Call(k, p, query, o) ==
    [strategy |-> k, provider |-> p, query |-> query, kind |-> o.kind]

\* mutant: main saves only the record appended last
Records_latest ==
    IF prog = "gps" THEN df
    ELSE IF all_ryokans = <<>> THEN <<>>
    ELSE <<all_ryokans[Len(all_ryokans)]>>

\* the records the running script holds in memory
Records == IF prog = "gps" THEN df ELSE all_ryokans

----------------------------------------------------------------------------
(* to_csv(INPUT_FILE) rewrites the file in place: open for writing truncates  *)
(* it, then header and rows are written through a buffer                      *)

Prefixes(rows) == {SubSeq(rows, 1, n) : n \in 0..Len(rows)}

\* a last row cut short by the end of the file: the fields after the cut are
\* missing (column order ... lat, lon, url; generate_db_ryokans.py:203-217)
TornRows(r) ==
    { [r EXCEPT !.lat = NaN, !.lon = NaN, !.url = <<>>],
      [r EXCEPT !.lon = NaN, !.url = <<>>] }

\* what the file can hold when writing `rows` stops at an arbitrary byte
TornFiles(rows) ==
    {EmptyFile}
      \cup {CsvFile(p) : p \in Prefixes(rows)}
      \cup UNION { {CsvFile(Append(SubSeq(rows, 1, n - 1), t)) : t \in TornRows(rows[n])} :
                     n \in 1..Len(rows) }

----------------------------------------------------------------------------
(* ryokan_gps.py: fetch_gps_data *)

\* mutant: the mask is dropped and every row is processed
rows_to_process_all(d) == [n \in 1..Len(d) |-> n - 1]

\* lines 56-57: the index labels (0-based) of the rows whose lat is missing
rows_to_process(d) ==
    LET F[n \in 0..Len(d)] ==
            IF n = 0 THEN <<>>
            ELSE IF d[n].lat = NaN THEN Append(F[n - 1], n - 1) ELSE F[n - 1]
    IN  F[Len(d)]

\* lines 73-76, 80-84: location = geocode(...) inside try/except: a raised
\* exception is logged and location keeps its value None
TryGeocode(o) == IF o.kind = "found" THEN o.loc ELSE None

\* mutant: the exception is not caught and ends the run
ExceptPc_uncaught(o, next) == IF o.kind = "raise" THEN "aborted" ELSE next

\* lines 75-76, 83-84: except Exception: the run goes on at the next statement
ExceptPc(o, next) == next

\* line 72: strategy 1 is tried when the cleaned address is not empty
NeedStrategy1(address) == address # <<>>

\* mutant: strategy 2 is tried whatever strategy 1 returned
NeedStrategy2_always(loc, name) == Truthy(name)

\* line 79: strategy 2 is tried when nothing was found and the name is truthy
NeedStrategy2(loc, name) == ~loc.ok /\ Truthy(name)

\* mutant: the place found is also written to the "location" column
UpdatedRow_location(row, loc) ==
    IF loc.ok
      THEN [row EXCEPT !.lat = loc.latitude, !.lon = loc.longitude,
                       !.location = <<loc.latitude, loc.longitude>>]
      ELSE row

\* lines 87-93: both coordinates are written when something was found
UpdatedRow(row, loc) ==
    IF loc.ok THEN [row EXCEPT !.lat = loc.latitude, !.lon = loc.longitude]
    ELSE row

\* line 99: the progressive save is tied to the row's index label
SaveDueRow(index) == index % SAVE_EVERY_ROWS = 0

\* lines 27-61: load the catalog and select the rows to process
LoadCatalog ==
    /\ prog = "gps" /\ pc = "start"
    /\ IF ~file.exists
         THEN \* line 27: no file, nothing to do
              /\ pc' = "done"
              /\ UNCHANGED <<df, todo, loaded>>
         ELSE IF ~file.header
         THEN \* line 33: read_csv raises on a file without a header line
              /\ pc' = "load_error"
              /\ UNCHANGED <<df, todo, loaded>>
         ELSE /\ df' = file.rows
              /\ loaded' = file.rows
              /\ todo' = rows_to_process(file.rows)
              /\ pc' = IF rows_to_process(file.rows) = <<>> THEN "done" ELSE "s1"
    /\ UNCHANGED <<prog, file, location, since, saveKind, tried, attempted, gap,
                   unsaved, lastGood>>
    /\ UNCHANGED mainVars
    /\ UNCHANGED waited
    /\ UNCHANGED <<extractVars, saves>>

\* lines 66-76: strategy 1, the cleaned address
Strategy1 ==
    /\ prog = "gps" /\ pc = "s1"
    /\ LET index == Head(todo)
           row == df[index + 1]
           address == clean_address(row.location)
       IN  IF NeedStrategy1(address)
             THEN \E o \in Outcomes, l \in Latencies :
                    /\ location' = TryGeocode(o)
                    /\ pc' = ExceptPc(o, "s2")
                    /\ since' = SinceAfterCall("primary", l)
                    /\ gap' = GapAfterCall("primary")
                    /\ waited' = Wait("primary")
                    /\ tried' = <<Call(1, "primary", address, o)>>
                    /\ attempted' = attempted \cup {index}
             ELSE /\ location' = None
                  /\ pc' = "s2"
                  /\ tried' = <<>>
                  /\ UNCHANGED <<since, gap, waited, attempted>>
    /\ UNCHANGED <<prog, file, df, todo, saveKind, loaded, unsaved, lastGood>>
    /\ UNCHANGED mainVars
    /\ UNCHANGED <<extractVars, saves>>

\* lines 78-84: strategy 2, "{name} Japan"
Strategy2 ==
    /\ prog = "gps" /\ pc = "s2"
    /\ LET index == Head(todo)
           row == df[index + 1]
       IN  IF NeedStrategy2(location, row.name)
             THEN \E o \in Outcomes, l \in Latencies :
                    /\ location' = TryGeocode(o)
                    /\ pc' = ExceptPc(o, "update")
                    /\ since' = SinceAfterCall("primary", l)
                    /\ gap' = GapAfterCall("primary")
                    /\ waited' = Wait("primary")
                    /\ tried' = Append(tried, Call(2, "primary", <<row.name, "Japan">>, o))
                    /\ attempted' = attempted \cup {index}
             ELSE /\ pc' = "update"
                  /\ UNCHANGED <<location, since, gap, waited, tried, attempted>>
    /\ UNCHANGED <<prog, file, df, todo, saveKind, loaded, unsaved, lastGood>>
    /\ UNCHANGED mainVars
    /\ UNCHANGED <<extractVars, saves>>

\* lines 86-102 and the loop's end: write the coordinates found, count the row,
\* start the progressive save when it is due, else go on (to the final save
\* after the last row)
UpdateRow ==
    /\ prog = "gps" /\ pc = "update"
    /\ LET index == Head(todo)
       IN  /\ df' = [df EXCEPT ![index + 1] = UpdatedRow(df[index + 1], location)]
           /\ todo' = Tail(todo)
           /\ unsaved' = unsaved + 1
           /\ IF SaveDueRow(index)
                THEN pc' = "save" /\ saveKind' = "progress"
                ELSE IF Tail(todo) = <<>>
                THEN pc' = "save" /\ saveKind' = "final"
                ELSE pc' = "s1" /\ UNCHANGED saveKind
    /\ location' = None
    /\ tried' = <<>>
    /\ UNCHANGED <<prog, file, since, loaded, attempted, gap, lastGood>>
    /\ UNCHANGED mainVars
    /\ waited' = 0
    /\ UNCHANGED <<extractVars, saves>>

----------------------------------------------------------------------------
(* generate_db_ryokans.py: main and get_ryokan_details *)

\* the link targets an index page's articles can carry
Hrefs == {Gora, Tawaraya, <<"ryokan", "page", "2">>, <<"guide", "onsen">>}

\* at most this many articles on one index page
MaxArticles == 2

Has(link, seg) == \E i \in 1..Len(link) : link[i] = seg

\* lines 249-253: "/ryokan/" in link and "page/" not in link and "/guide/" not in link
IsListingLink(link) ==
    Has(link, "ryokan") /\ ~Has(link, "page") /\ ~Has(link, "guide")

\* lines 244-254: the links kept from the page's articles, in page order
LinksOf(articles) == SelectSeq(articles, IsListingLink)

\* what the listing document at a URL parses to (lines 63-72): name and
\* address, each "Unknown" when its element is missing from the document
DocAt(url) ==
    IF url = Gora THEN [name |-> "Gora Kadan", location |-> <<"Hakone">>]
    ELSE [name |-> "Unknown", location |-> <<"Unknown">>]

\* lines 231, 271-282: where main goes after a page is finished without a save
AfterPage(p) == IF p = TOTAL_PAGES THEN "save" ELSE "page"

\* line 274: the progressive save is tied to the page number
SaveDuePage(p) == p % SAVE_EVERY_PAGES = 0

\* lines 256-266: the for loop over the page's links goes on to the next link
AfterListing(rest) == IF rest = <<>> THEN "endpage" ELSE "listing"

\* mutant: the exception of a page is not caught and ends the run
CaughtPagePc_uncaught == "aborted"

\* lines 234, 268-269: an exception inside the page's try block is caught and
\* logged; main goes on at pbar.update
CaughtPagePc == "endpage"

\* lines 236-239: a page that did not load is counted and skipped with continue
FetchPageFailed ==
    /\ prog = "main" /\ pc = "page"
    /\ visited' = visited \cup {page_num}
    /\ unsaved' = unsaved + 1
    /\ pc' = AfterPage(page_num)
    /\ page_num' = IF page_num = TOTAL_PAGES THEN page_num ELSE page_num + 1
    /\ saveKind' = IF page_num = TOTAL_PAGES THEN "final" ELSE saveKind
    /\ UNCHANGED <<prog, file, location, all_ryokans, urls_to_scrape, details,
                   budget, since, tried, gap, lastGood>>
    /\ UNCHANGED gpsVars
    /\ UNCHANGED waited
    /\ UNCHANGED <<extractVars, saves>>

\* lines 234-235, 241-242, 268-269: the request or the parse raises; the
\* exception is caught after the page's loop
FetchPageRaised ==
    /\ prog = "main" /\ pc = "page"
    /\ urls_to_scrape' = <<>>
    /\ pc' = CaughtPagePc
    /\ UNCHANGED <<prog, file, location, all_ryokans, page_num, details, budget,
                   since, saveKind, tried, gap, unsaved, lastGood, visited>>
    /\ UNCHANGED gpsVars
    /\ UNCHANGED waited
    /\ UNCHANGED <<extractVars, saves>>

\* lines 235-254: the page loads; its listing links are collected
FetchPage ==
    /\ prog = "main" /\ pc = "page"
    /\ \E articles \in SeqsUpTo(Hrefs, MaxArticles) :
         /\ Len(LinksOf(articles)) <= budget
         /\ urls_to_scrape' = LinksOf(articles)
         /\ budget' = budget - Len(LinksOf(articles))
         /\ pc' = IF LinksOf(articles) = <<>> THEN "endpage" ELSE "listing"
    /\ UNCHANGED <<prog, file, location, all_ryokans, page_num, details, since,
                   saveKind, tried, gap, unsaved, lastGood, visited>>
    /\ UNCHANGED gpsVars
    /\ UNCHANGED waited
    /\ UNCHANGED <<extractVars, saves>>

\* lines 262-266 with 55-59, 220-222: get_ryokan_details returns None (the
\* listing did not load, or parsing raised); nothing is appended, main sleeps
ListingFailed ==
    /\ prog = "main" /\ pc = "listing"
    /\ \E d \in {SLEEP_MIN, SLEEP_MAX} : since' = SinceAfter(d)
    /\ urls_to_scrape' = Tail(urls_to_scrape)
    /\ pc' = AfterListing(Tail(urls_to_scrape))
    /\ UNCHANGED <<prog, file, location, all_ryokans, page_num, details, budget,
                   saveKind, tried, gap, unsaved, lastGood, visited>>
    /\ UNCHANGED gpsVars
    /\ UNCHANGED waited
    /\ UNCHANGED <<extractVars, saves>>

\* lines 57-197: the listing loads and its fields are extracted
ParseListing ==
    /\ prog = "main" /\ pc = "listing"
    /\ LET doc == DocAt(Head(urls_to_scrape))
       IN  details' = Row(doc.name, doc.location, NaN, NaN, Head(urls_to_scrape))
    /\ location' = None
    /\ tried' = <<>>
    /\ pc' = "resolve"
    /\ UNCHANGED <<prog, file, all_ryokans, page_num, urls_to_scrape, budget, since,
                   saveKind, gap, unsaved, lastGood, visited>>
    /\ UNCHANGED gpsVars
    /\ UNCHANGED waited
    /\ UNCHANGED <<extractVars, saves>>

\* RyokanLocator.get_coordinates (called at line 200): the strategy chain of
\* spec 4.3, as (provider, query) for strategy k
LocatorStrategy(k, name, address) ==
    CASE k = 1 -> [provider |-> "primary", query |-> address]
      [] k = 2 -> [provider |-> "secondary", query |-> <<name, ",">> \o address]
      [] k = 3 -> [provider |-> "secondary", query |-> <<name, "Japan">>]
      [] OTHER -> [provider |-> "primary", query |-> <<name, "Japan">>]

\* the number of strategies of the chain
LocatorStrategies == 4

\* spec 4.3: a call that throws or times out counts as a failed strategy
LocatorResult(o) == IF o.kind = "found" THEN o.loc ELSE None

\* spec 4.3: stop at the first usable coordinate pair, or after the last strategy
LocatorDone(k, loc) == loc.ok \/ k = LocatorStrategies

\* one strategy of get_coordinates for the listing being extracted
GetCoordinatesStep ==
    /\ prog = "main" /\ pc = "resolve"
    /\ LET k == Len(tried) + 1
           st == LocatorStrategy(k, details.name, details.location)
       IN  \E o \in Outcomes, l \in Latencies :
             /\ location' = LocatorResult(o)
             /\ tried' = Append(tried, Call(k, st.provider, st.query, o))
             /\ since' = SinceAfterCall(st.provider, l)
             /\ gap' = GapAfterCall(st.provider)
             /\ waited' = Wait(st.provider)
             /\ pc' = IF LocatorDone(k, LocatorResult(o)) THEN "append" ELSE "resolve"
    /\ UNCHANGED <<prog, file, all_ryokans, page_num, urls_to_scrape, details,
                   budget, saveKind, unsaved, lastGood, visited>>
    /\ UNCHANGED gpsVars
    /\ UNCHANGED <<extractVars, saves>>

\* lines 200-218: the record returned by get_ryokan_details
DetailsOf(d, loc) == [d EXCEPT !.lat = loc.latitude, !.lon = loc.longitude]

\* lines 262-266: the record is appended, then main sleeps 0.5 to 1.0 s
AppendListing ==
    /\ prog = "main" /\ pc = "append"
    /\ all_ryokans' = Append(all_ryokans, DetailsOf(details, location))
    /\ \E d \in {SLEEP_MIN, SLEEP_MAX} : since' = SinceAfter(d)
    /\ urls_to_scrape' = Tail(urls_to_scrape)
    /\ pc' = AfterListing(Tail(urls_to_scrape))
    /\ location' = None
    /\ tried' = <<>>
    /\ UNCHANGED <<prog, file, page_num, details, budget, saveKind, gap, unsaved,
                   lastGood, visited>>
    /\ UNCHANGED gpsVars
    /\ waited' = 0
    /\ UNCHANGED <<extractVars, saves>>

\* lines 271-278: the page is counted; every fifth page number starts a save
EndPage ==
    /\ prog = "main" /\ pc = "endpage"
    /\ visited' = visited \cup {page_num}
    /\ unsaved' = unsaved + 1
    /\ IF SaveDuePage(page_num)
         THEN pc' = "save" /\ saveKind' = "progress" /\ UNCHANGED page_num
         ELSE /\ pc' = AfterPage(page_num)
              /\ page_num' = IF page_num = TOTAL_PAGES THEN page_num ELSE page_num + 1
              /\ saveKind' = IF page_num = TOTAL_PAGES THEN "final" ELSE saveKind
    /\ UNCHANGED <<prog, file, location, all_ryokans, urls_to_scrape, details,
                   budget, since, tried, gap, lastGood>>
    /\ UNCHANGED gpsVars
    /\ UNCHANGED waited
    /\ UNCHANGED <<extractVars, saves>>

\* lines 285-288: df["lat"] of a DataFrame built from no record has no such column
Statistics ==
    /\ prog = "main" /\ pc = "stats"
    /\ pc' = IF all_ryokans = <<>> THEN "keyerror" ELSE "done"
    /\ UNCHANGED <<prog, file, location, since, saveKind, tried, gap, unsaved, lastGood>>
    /\ UNCHANGED mainVars
    /\ UNCHANGED gpsVars
    /\ UNCHANGED waited
    /\ UNCHANGED <<extractVars, saves>>

----------------------------------------------------------------------------
(* Saving: ryokan_gps.py:100-105, generate_db_ryokans.py:275-282 *)

\* what a completed to_csv leaves in the file; a DataFrame built from no record
\* has no columns, so no header
ToCsv(records) ==
    IF prog = "main" /\ records = <<>> THEN EmptyFile ELSE CsvFile(records)

\* where the script goes after a completed save
AfterSave ==
    IF saveKind = "final" THEN (IF prog = "main" THEN "stats" ELSE "done")
    ELSE IF prog = "main" THEN AfterPage(page_num)
    ELSE IF todo = <<>> THEN "save" ELSE "s1"

\* to_csv opens the catalog file for writing, which truncates it
SaveOpen ==
    /\ pc = "save"
    /\ file' = EmptyFile
    /\ pc' = "writing"
    /\ UNCHANGED <<prog, location, since, saveKind, tried, gap, unsaved, lastGood>>
    /\ UNCHANGED mainVars
    /\ UNCHANGED gpsVars
    /\ UNCHANGED waited
    /\ UNCHANGED <<extractVars, saves>>

\* to_csv writes header and rows and closes the file; the script goes on
SaveWrite ==
    /\ pc = "writing"
    /\ file' = ToCsv(Records)
    /\ lastGood' = ToCsv(Records)
    /\ saves' = IF prog = "main" THEN Append(saves, Records) ELSE saves
    /\ unsaved' = 0
    /\ pc' = AfterSave
    /\ saveKind' = IF saveKind = "progress" /\ pc' = "save" THEN "final" ELSE saveKind
    /\ page_num' = IF prog = "main" /\ saveKind = "progress" /\ page_num < TOTAL_PAGES
                     THEN page_num + 1 ELSE page_num
    /\ UNCHANGED <<prog, location, since, tried, gap>>
    /\ UNCHANGED <<all_ryokans, urls_to_scrape, details, budget, visited>>
    /\ UNCHANGED gpsVars
    /\ UNCHANGED waited
    /\ UNCHANGED extractVars

----------------------------------------------------------------------------
(* Interruption and resumption *)

Running == {"start", "s1", "s2", "update", "page", "listing", "resolve", "append",
            "endpage", "save", "writing", "stats"}

\* the memory of a script that is not running
Cleared ==
    /\ df' = <<>> /\ todo' = <<>> /\ loaded' = <<>> /\ attempted' = {}
    /\ all_ryokans' = <<>> /\ urls_to_scrape' = <<>> /\ visited' = {}
    /\ details' = Row("", <<>>, NaN, NaN, <<>>)
    /\ location' = None /\ tried' = <<>>
    /\ since' = [q \in Providers |-> Cap(q)]
    /\ gap' = [q \in Providers |-> Cap(q)]
    /\ waited' = 0
    /\ unsaved' = 0
    /\ page_num' = 1
    /\ saveKind' = "progress"
    /\ saves' = <<>>

\* the run is stopped (operator interrupt, crash, power loss): its memory is
\* gone, and a save that was being written leaves whatever reached the disk
Interrupt ==
    /\ pc \in Running
    /\ pc' = "interrupted"
    /\ IF pc = "writing"
         THEN /\ file' \in TornFiles(Records)
              /\ lastGood' = IF file' = ToCsv(Records) THEN file' ELSE lastGood
         ELSE UNCHANGED <<file, lastGood>>
    /\ Cleared
    /\ UNCHANGED <<prog, budget>>
    /\ UNCHANGED extractVars

\* fetch_gps_data is run again on the file the interrupted run left
Resume ==
    /\ prog = "gps" /\ pc = "interrupted"
    /\ pc' = "start"
    /\ lastGood' = file
    /\ UNCHANGED <<file, location, since, saveKind, tried, gap, unsaved>>
    /\ UNCHANGED <<prog, mainVars, gpsVars>>
    /\ UNCHANGED waited
    /\ UNCHANGED <<extractVars, saves>>

----------------------------------------------------------------------------
(* generate_db_ryokans.py, get_ryokan_details: price range and rental tubs *)

\* words of the price container's text
MaxPriceWords == 2
\* definition lists inside the rental block
MaxDls == 2

\* int(...) of the digit strings that occur in the documents
Digits == ("0" :> 0) @@ ("2" :> 2) @@ ("3000" :> 3000) @@ ("5000" :> 5000)

\* str.isdigit (line 124) and the strings \d+ matches whole (line 85)
isdigit(text) == text \in DOMAIN Digits

\* line 84: price_span.text.replace(",", ""), word by word
replace_commas(word) ==
    CASE word = "3,000" -> "3000"
      [] word = "5,000" -> "5000"
      [] OTHER -> word

\* line 85: re.findall(r"\d+", price_text), the digit runs in text order
RECURSIVE findall(_)
findall(text) ==
    IF text = <<>> THEN <<>>
    ELSE LET word == replace_commas(Head(text))
         IN  (IF isdigit(word) THEN <<word>> ELSE <<>>) \o findall(Tail(text))

\* lines 77-85: the numeric tokens of the price container, none when the
\* container or its span is missing
PricesOf(doc) ==
    IF doc.price_span.found THEN findall(doc.price_span.text) ELSE <<>>

\* lines 75, 86-91
PriceMin(prices) ==
    IF Len(prices) >= 2 THEN Digits[prices[1]]
    ELSE IF Len(prices) = 1 THEN Digits[prices[1]]
    ELSE 0

\* lines 76, 86-91
PriceMax(prices) ==
    IF Len(prices) >= 2 THEN Digits[prices[2]]
    ELSE IF Len(prices) = 1 THEN Digits[prices[1]]
    ELSE 0

\* line 121: str.lower, word by word
lower(text) ==
    [i \in 1..Len(text) |->
        CASE text[i] = "Open-air" -> "open-air"
          [] text[i] = "Indoor" -> "indoor"
          [] text[i] = "Charge" -> "charge"
          [] OTHER -> text[i]]

\* `phrase in text`: the words of phrase occur next to each other in text
Contains(text, phrase) ==
    \E i \in 0..(Len(text) - Len(phrase)) :
        \A j \in 1..Len(phrase) : text[i + j] = phrase[j]

\* lines 122-125: count = int(dd) when the stripped text is all digits, else 0
CountOf(dd) == IF Len(dd) = 1 /\ isdigit(dd[1]) THEN Digits[dd[1]] ELSE 0

\* lines 127-132: the branch of the if/elif chain a lowered label takes
Branch(dt) ==
    IF Contains(dt, <<"open-air", "tubs">>) /\ ~Contains(dt, <<"indoor">>)
    THEN "open"
    ELSE IF Contains(dt, <<"indoor", "tubs">>) /\ ~Contains(dt, <<"open-air">>)
    THEN "indoor"
    ELSE IF Contains(dt, <<"indoor", "and", "outdoor">>)
    THEN "both"
    ELSE "none"

\* line 118: header and "Rental" in header.text (no h3: the empty text)
IsRentalHeader(header) == Contains(header, <<"Rental">>)

(* The listing documents *)

PriceWords == {"JPY", "3,000", "5,000"}
PriceSpans ==
    {[found |-> FALSE, text |-> <<>>]}
    \cup {[found |-> TRUE, text |-> t] : t \in SeqsUpTo(PriceWords, MaxPriceWords)}

Headers == {<<>>, <<"Rental", "baths">>, <<"Private", "baths">>}
Labels == {<<"Open-air", "tubs">>,
           <<"Indoor", "tubs">>,
           <<"Indoor", "and", "outdoor", "tubs">>,
           <<"Open-air", "tubs", "and", "indoor", "tubs">>,
           <<"Charge">>}
DdTexts == {<<"0">>, <<"2">>, <<"-">>}
DlPairs == {[dt |-> l, dd |-> d] : l \in Labels, d \in DdTexts}

\* a listing document: its price span and its .detail-private block
Soups ==
    {[price_span |-> p, header |-> h, dls |-> q] :
        p \in PriceSpans, h \in Headers, q \in SeqsUpTo(DlPairs, MaxDls)}

NoSoup == [price_span |-> [found |-> FALSE, text |-> <<>>], header |-> <<>>,
           dls |-> <<>>]
Unclassified == [dt |-> <<>>, count |-> 0, routed |-> "none"]

\* the extraction variables while no document is being extracted
ExtractIdle ==
    /\ soup = NoSoup
    /\ price_min = 0 /\ price_max = 0
    /\ rental_open = FALSE /\ rental_indoor = FALSE /\ rental_both = FALSE
    /\ dls = <<>>
    /\ classified = Unclassified

\* lines 74-91: the price range
ExtractPrice ==
    /\ prog = "main" /\ pc = "price"
    /\ price_min' = PriceMin(PricesOf(soup))
    /\ price_max' = PriceMax(PricesOf(soup))
    /\ pc' = "rental"
    /\ UNCHANGED <<soup, rental_open, rental_indoor, rental_both, dls, classified>>
    /\ UNCHANGED runVars

\* lines 110-119: the flags start false; the definition lists of a block whose
\* header contains "Rental" are the ones classified
RentalHeader ==
    /\ prog = "main" /\ pc = "rental"
    /\ rental_open' = FALSE /\ rental_indoor' = FALSE /\ rental_both' = FALSE
    /\ dls' = IF IsRentalHeader(soup.header) THEN soup.dls ELSE <<>>
    /\ pc' = "dl"
    /\ UNCHANGED <<soup, price_min, price_max, classified>>
    /\ UNCHANGED runVars

\* lines 120-132: one definition list of the rental block
ClassifyDl ==
    /\ prog = "main" /\ pc = "dl" /\ dls # <<>>
    /\ LET dt == lower(Head(dls).dt)
           count == CountOf(Head(dls).dd)
           branch == Branch(dt)
       IN  /\ rental_open' = IF branch = "open" THEN count > 0 ELSE rental_open
           /\ rental_indoor' = IF branch = "indoor" THEN count > 0 ELSE rental_indoor
           /\ rental_both' = IF branch = "both" THEN count > 0 ELSE rental_both
           /\ classified' = [dt |-> dt, count |-> count, routed |-> branch]
    /\ dls' = Tail(dls)
    /\ UNCHANGED <<pc, soup, price_min, price_max>>
    /\ UNCHANGED runVars

\* lines 202-218: the record is returned
ReturnDetails ==
    /\ prog = "main" /\ pc = "dl" /\ dls = <<>>
    /\ pc' = "returned"
    /\ UNCHANGED extractVars
    /\ UNCHANGED runVars

\* the variables of the two scripts while one listing is extracted on its own
NoRun ==
    /\ prog = "main"
    /\ page_num = 1
    /\ budget = 0
    /\ file = NoFile

----------------------------------------------------------------------------
(* The specification *)

InitCommon ==
    /\ location = None
    /\ since = [q \in Providers |-> Cap(q)]
    /\ gap = [q \in Providers |-> Cap(q)]
    /\ saveKind = "progress"
    /\ tried = <<>>
    /\ waited = 0
    /\ unsaved = 0
    /\ lastGood = file
    /\ saves = <<>>
    /\ df = <<>> /\ todo = <<>> /\ loaded = <<>> /\ attempted = {}
    /\ all_ryokans = <<>> /\ urls_to_scrape = <<>> /\ visited = {}
    /\ details = Row("", <<>>, NaN, NaN, <<>>)

\* get_ryokan_details called on one listing document
ExtractInit ==
    /\ NoRun
    /\ pc = "price"
    /\ InitCommon
    /\ soup \in Soups
    /\ price_min = 0 /\ price_max = 0
    /\ rental_open = FALSE /\ rental_indoor = FALSE /\ rental_both = FALSE
    /\ dls = <<>>
    /\ classified = Unclassified

\* main starts with nothing accumulated, on page 1
InitMain ==
    /\ prog = "main" /\ pc = "page"
    /\ page_num = 1
    /\ budget = MaxListings
    /\ file \in {NoFile, CsvFile(<<Row("Tawaraya", <<"Kyoto">>, NaN, NaN, Tawaraya)>>)}
    /\ InitCommon
    /\ ExtractIdle

\* fetch_gps_data starts on the catalog an earlier run left, if any
InitGps ==
    /\ prog = "gps" /\ pc = "start"
    /\ page_num = 1
    /\ budget = 0
    /\ file \in {NoFile} \cup {CsvFile(c) : c \in Catalogs}
    /\ InitCommon
    /\ ExtractIdle

Init == InitMain \/ InitGps

Next ==
    \/ LoadCatalog
    \/ Strategy1
    \/ Strategy2
    \/ UpdateRow
    \/ FetchPageFailed
    \/ FetchPageRaised
    \/ FetchPage
    \/ ListingFailed
    \/ ParseListing
    \/ GetCoordinatesStep
    \/ AppendListing
    \/ EndPage
    \/ Statistics
    \/ SaveOpen
    \/ SaveWrite
    \/ Interrupt
    \/ Resume

Spec == Init /\ [][Next]_vars

\* get_ryokan_details on its own, over every listing document
ExtractNext ==
    \/ ExtractPrice
    \/ RentalHeader
    \/ ClassifyDl
    \/ ReturnDetails

ExtractSpec == ExtractInit /\ [][ExtractNext]_vars

----------------------------------------------------------------------------
(* Properties *)

Present(r) == r.lat # NaN /\ r.lon # NaN
Absent(r) == r.lat = NaN /\ r.lon = NaN
Last(q) == q[Len(q)]
IsPrefix(a, b) == Len(a) <= Len(b) /\ SubSeq(b, 1, Len(a)) = a

\* C1: a geocoding run issues provider calls only for records that were loaded
\* without coordinates, never for a record loaded with coordinates, and when it
\* ends it has issued calls for every record loaded without coordinates
ResumeOnlyMissing ==
    prog = "gps" =>
      /\ \A i \in 1..Len(loaded) : Present(loaded[i]) => (i - 1) \notin attempted
      /\ \A i \in attempted : i + 1 \in 1..Len(loaded) /\ loaded[i + 1].lat = NaN
      /\ pc = "done" =>
           \A i \in 1..Len(loaded) : Absent(loaded[i]) => (i - 1) \in attempted

\* C1 witness: a finished run over a catalog holding rows with and rows without
\* coordinates, with calls issued for exactly two rows
ResumeOnlyMissingWitness ==
    /\ prog = "gps" /\ pc = "done"
    /\ Len(loaded) = 3
    /\ Cardinality(attempted) = 2
    /\ \E i \in 1..Len(loaded) : Present(loaded[i])

\* the number the claim gives to a call, from its provider and the form of its query
IsJapanQuery(q) == Len(q) = 2 /\ q[2] = "Japan"
IsNameAddressQuery(q) == Len(q) >= 2 /\ q[2] = ","
ClaimStrategy(c) ==
    CASE c.provider = "primary" /\ IsJapanQuery(c.query) -> 4
      [] c.provider = "secondary" /\ IsJapanQuery(c.query) -> 3
      [] c.provider = "secondary" /\ IsNameAddressQuery(c.query) -> 2
      [] OTHER -> 1

CurrentAddress ==
    IF prog = "gps" THEN clean_address(df[Head(todo) + 1].location) ELSE details.location
CurrentName == IF prog = "gps" THEN df[Head(todo) + 1].name ELSE details.name

Applicable ==
    (IF NeedStrategy1(CurrentAddress) THEN {1} ELSE {})
      \cup (IF Truthy(CurrentName) THEN {2} ELSE {})

\* C3: a provider call that raises counts as a failed strategy: the run never
\* stops on it, the next strategy is still attempted for the same record, the
\* record stays in the catalog with its coordinates absent when every strategy
\* failed, and the run goes on
RaiseFallsThrough ==
    /\ pc # "aborted"
    /\ (prog = "gps" /\ pc = "update") =>
         /\ Len(df) = Len(loaded)
         /\ ~location.ok =>
              /\ {tried[j].strategy : j \in 1..Len(tried)} = Applicable
              /\ UpdatedRow(df[Head(todo) + 1], location).lat = NaN
              /\ UpdatedRow(df[Head(todo) + 1], location).lon = NaN
    /\ (prog = "gps" /\ pc = "s2" /\ tried # <<>> /\ tried[1].kind = "raise") =>
         NeedStrategy2(location, CurrentName)
    /\ (prog = "main" /\ pc = "append" /\ ~location.ok) =>
         /\ Len(tried) = LocatorStrategies
         /\ DetailsOf(details, location).lat = NaN
         /\ DetailsOf(details, location).lon = NaN
    /\ (prog = "main" /\ pc = "resolve" /\ tried # <<>>) => Last(tried).kind # "found"

\* C3 witness: both strategies raised for a record, which is kept, and more
\* records are still to be processed
RaiseFallsThroughWitness ==
    /\ prog = "gps" /\ pc = "update"
    /\ Len(tried) = 2
    /\ tried[1].kind = "raise" /\ tried[2].kind = "raise"
    /\ Len(todo) >= 2


\* C4 as stated: whenever a run is interrupted, the catalog file is the complete
\* content of a save (the last completed one, or the file the run started from)
InterruptedFileIsSnapshot == pc = "interrupted" => file = lastGood

\* C5 as stated: the accumulated records of main and the catalog file hold at
\* most one record per listing URL
UniqueIdentifiers ==
    prog = "main" =>
      /\ \A i, j \in 1..Len(all_ryokans) :
           all_ryokans[i].url = all_ryokans[j].url => i = j
      /\ pc \notin {"writing", "interrupted"} =>
           \A i, j \in 1..Len(file.rows) :
             file.rows[i].url = file.rows[j].url => i = j

Paired(r) == (r.lat = NaN) <=> (r.lon = NaN)

\* C6 as stated: in memory and in the catalog a run loads or has saved, every
\* record has both coordinates or neither, whatever the sequence of
\* extraction, resolution, save, interruption and resume steps
CoordinatesPaired ==
    /\ \A i \in 1..Len(df) : Paired(df[i])
    /\ \A i \in 1..Len(all_ryokans) : Paired(all_ryokans[i])
    /\ pc \notin {"writing", "interrupted"} =>
         \A i \in 1..Len(file.rows) : Paired(file.rows[i])

\* C7: main never stops on a failed page or listing: a page that fails is
\* counted and left, a listing that fails is skipped and the rest of its page
\* is still processed, no accumulated record is dropped, and every page up to
\* the last has been processed when the loop ends
FailuresAreSkipped ==
    /\ [](prog = "main" =>
            /\ pc # "aborted"
            /\ pc = "page" => visited = 1..(page_num - 1)
            /\ pc = "endpage" => urls_to_scrape = <<>>
            /\ pc \in {"stats", "done", "keyerror"} => visited = 1..TOTAL_PAGES)
    /\ [][(prog = "main" /\ pc' # "interrupted") =>
            /\ IsPrefix(all_ryokans, all_ryokans')
            /\ pc = "listing" =>
                 \/ pc' = "resolve" /\ urls_to_scrape' = urls_to_scrape
                 \/ /\ urls_to_scrape' = Tail(urls_to_scrape)
                    /\ all_ryokans' = all_ryokans
                    /\ pc' = (IF Tail(urls_to_scrape) = <<>> THEN "endpage" ELSE "listing")
            /\ pc = "page" =>
                 \/ pc' \in {"listing", "endpage"} /\ page_num' = page_num
                 \/ page_num' = page_num + 1 /\ pc' = "page"
                 \/ page_num = TOTAL_PAGES /\ pc' = "save"]_vars

\* C7 witness: the fifth page did not load and a listing failed; the records
\* scraped so far are kept and main is at the next page
FailuresAreSkippedWitness ==
    /\ prog = "main" /\ pc = "page"
    /\ page_num = SAVE_EVERY_PAGES + 1
    /\ unsaved = SAVE_EVERY_PAGES
    /\ all_ryokans # <<>>
    /\ Len(all_ryokans) < MaxListings - budget

\* C8 as stated: the units processed since the last save never exceed the
\* cadence (5 pages in main, 10 rows in fetch_gps_data), whatever failed or was
\* skipped, and a finished run has saved everything it processed
SaveCadence ==
    /\ prog = "main" => unsaved <= SAVE_EVERY_PAGES
    /\ prog = "gps" => unsaved <= SAVE_EVERY_ROWS
    /\ pc \in {"stats", "done", "keyerror"} => unsaved = 0

\* the spacing each provider asks for
RequiredDelay(p) == IF p = "primary" THEN PRIMARY_MIN_DELAY ELSE SECONDARY_MIN_DELAY

\* a step that issues a provider call adds one entry to the record's calls
IsCall == Len(tried') = Len(tried) + 1

\* C9: two successive calls to one provider are at least its minimum interval
\* apart (1.1 s primary, 0.5 s secondary); a call sleeps only for the time its
\* own provider still asks for, and leaves the other provider's limiter alone
RateLimited ==
    /\ [](\A p \in Providers : gap[p] >= RequiredDelay(p))
    /\ [][IsCall =>
            LET p == Last(tried').provider
            IN  /\ waited' = Max(0, RequiredDelay(p) - since[p])
                /\ \A q \in Providers \ {p} :
                     /\ gap'[q] = gap[q]
                     /\ since'[q] >= since[q]]_vars

\* C9 witness: a call to the secondary provider went out without sleeping
\* while the primary provider's interval was still running
RateLimitedWitness ==
    /\ prog = "main" /\ pc = "resolve"
    /\ Len(tried) = 2
    /\ tried[2].provider = "secondary"
    /\ waited = 0
    /\ since["primary"] < PRIMARY_MIN_DELAY

\* C10: a geocoding run changes nothing but the lat and lon of rows loaded
\* without a latitude, sets them at most once, keeps the number and order of
\* rows, and every save it completes writes exactly the rows in memory
OnlyCoordinatesChange ==
    /\ [](prog = "gps" =>
            /\ Len(df) = Len(loaded)
            /\ \A i \in 1..Len(df) :
                 /\ df[i].name = loaded[i].name
                 /\ df[i].location = loaded[i].location
                 /\ df[i].url = loaded[i].url
                 /\ loaded[i].lat # NaN => df[i] = loaded[i]
                 /\ (i - 1) \notin attempted => df[i] = loaded[i])
    /\ [][(prog = "gps" /\ pc' # "interrupted") =>
            /\ Len(df) = Len(df') =>
                 \A i \in 1..Len(df) : df[i].lat # NaN => df'[i] = df[i]
            /\ pc = "writing" => (file' = CsvFile(df) /\ df' = df)]_vars

\* C10 witness: a finished run that filled in the coordinates of one row and
\* left a row that already had them, with the catalog saved
OnlyCoordinatesChangeWitness ==
    /\ prog = "gps" /\ pc = "done"
    /\ file = CsvFile(df)
    /\ \E i \in 1..Len(df) : loaded[i].lat = NaN /\ df[i].lat # NaN
    /\ \E i \in 1..Len(df) : loaded[i].lat # NaN

----------------------------------------------------------------------------
(* Properties of get_ryokan_details (ExtractSpec) *)

\* a definition list of a rental block has just been classified
JustClassified == prog = "main" /\ pc = "dl" /\ classified.dt # <<>>

\* the flag of the category a label was routed to
FlagOf(category) ==
    CASE category = "open" -> rental_open
      [] category = "indoor" -> rental_indoor
      [] category = "both" -> rental_both

\* C11: every definition-list label under a "Rental" header is routed to
\* exactly one of the categories open-air-only, indoor-only, indoor-and-outdoor;
\* a label containing both "open-air" and "indoor" is routed to the combined
\* category and sets neither single flag; the flag of the category chosen is
\* true iff the paired count is > 0
RentalRouting ==
    JustClassified =>
      /\ classified.routed \in {"open", "indoor", "both"}
      /\ (Contains(classified.dt, <<"open-air">>) /\ Contains(classified.dt, <<"indoor">>))
           => classified.routed = "both"
      /\ classified.routed # "none"
           => (FlagOf(classified.routed) <=> classified.count > 0)

\* C12: every record has price_min <= price_max when both are non-zero, for
\* every sequence of numeric tokens of the price container: none gives 0/0, one
\* token v gives v/v, two or more give the first two as min and max
PriceOrdered ==
    (prog = "main" /\ pc \in {"rental", "dl", "returned"}) =>
      LET prices == PricesOf(soup)
      IN  /\ (price_min # 0 /\ price_max # 0) => price_min <= price_max
          /\ Len(prices) = 0 => (price_min = 0 /\ price_max = 0)
          /\ Len(prices) = 1 =>
               (price_min = Digits[prices[1]] /\ price_max = Digits[prices[1]])
          /\ Len(prices) >= 2 =>
               (price_min = Digits[prices[1]] /\ price_max = Digits[prices[2]])

----------------------------------------------------------------------------
(* Properties of the accumulated list of main *)

\* C13: in the scraping run the accumulated list only grows, by one record
\* appended at its end for the link being scraped, links being taken in page
\* order and pages in increasing order; no record already appended is removed,
\* moved or changed; so every completed save holds a prefix of every later
\* save and of the list in memory, and the final save holds the whole list
AppendOnly ==
    /\ [](prog = "main" =>
            /\ \A i \in 1..Len(saves) : \A j \in i..Len(saves) :
                   IsPrefix(saves[i], saves[j])
            /\ \A i \in 1..Len(saves) : IsPrefix(saves[i], all_ryokans)
            /\ pc \in {"stats", "done", "keyerror"} =>
                   (saves # <<>> /\ Last(saves) = all_ryokans))
    /\ [][(prog = "main" /\ pc' # "interrupted") =>
            /\ IsPrefix(all_ryokans, all_ryokans')
            /\ Len(all_ryokans') <= Len(all_ryokans) + 1
            /\ all_ryokans' # all_ryokans =>
                 /\ urls_to_scrape # <<>>
                 /\ Last(all_ryokans').url = Head(urls_to_scrape)
                 /\ urls_to_scrape' = Tail(urls_to_scrape)
            /\ page_num' >= page_num
            /\ (pc # "page" /\ urls_to_scrape' # urls_to_scrape) =>
                 (urls_to_scrape # <<>> /\ urls_to_scrape' = Tail(urls_to_scrape))
            /\ IsPrefix(saves, saves')
            /\ saves' # saves => Last(saves') = all_ryokans]_vars

\* C13 witness: the run has ended after a checkpoint save that held records
\* and a final save that holds more
AppendOnlyWitness ==
    /\ prog = "main" /\ pc = "stats"
    /\ Len(saves) = 2
    /\ saves[1] # <<>>
    /\ Len(saves[2]) > Len(saves[1])
    /\ saves[2] = all_ryokans

====
